---- MODULE Spec2Model ----
(***************************************************************************)
(* Not-Sudoku: the puzzle core (src/sudoku/solver.js, generator.js,        *)
(* board.js) as a state machine.                                           *)
(*                                                                         *)
(* Scale.  The source works on a 9x9 grid of 3x3 boxes.  Every loop bound  *)
(* 9 and box side 3 of the source is written here as N and BOX, and BOX is *)
(* 2, so the grids of the model are 4x4 with 2x2 boxes: exhaustive search  *)
(* over 9x9 grids is out of reach of explicit-state checking.  The removal *)
(* targets, counts of cells out of 81, are taken as the same share of the  *)
(* N*N cells (scaled), so that carving meets them as it does in the        *)
(* source; the attempt limit is the source's.                              *)
(*                                                                         *)
(* A grid is a function board[r][c], r and c in 0 .. N-1, as in the source.*)
(* Arrays are values here, so cloneBoard is the identity: what the source  *)
(* copies, the model passes by value.                                      *)
(***************************************************************************)
EXTENDS Integers, Sequences, FiniteSets, TLC

\* Box side (3 in the source) and the grid side it gives (9 in the source).
BOX == 2

N == BOX * BOX

Idx == 0 .. (N - 1)

Digits == 1 .. N

Positions == 0 .. (N * N - 1)

\* generator.js:24, the grid generateSolvedBoard starts from.
EmptyBoard == [r \in Idx |-> [c \in Idx |-> 0]]

\* JavaScript's null, where the source has it in place of a grid or a cell.
Null == <<>>

(***************************************************************************)
(* solver.js                                                               *)
(***************************************************************************)

\* findEmpty: the first zero cell in row-major order, or Null.
findEmpty(board) ==
  LET zs == {p \in Positions : board[p \div N][p % N] = 0}
  IN IF zs = {} THEN Null
     ELSE LET p == CHOOSE q \in zs : \A o \in zs : q <= o
          IN <<p \div N, p % N>>

\* isSafe: val occurs nowhere in the row, the column or the box of the cell.
isSafe(board, row, col, val) ==
  /\ \A i \in Idx : board[row][i] # val /\ board[i][col] # val
  /\ LET startRow == (row \div BOX) * BOX
         startCol == (col \div BOX) * BOX
     IN \A r \in startRow .. (startRow + BOX - 1) :
          \A c \in startCol .. (startCol + BOX - 1) : board[r][c] # val

\* The test of isSafe without the column half of its first loop.
isSafeNoColumn(board, row, col, val) ==
  /\ \A i \in Idx : board[row][i] # val
  /\ LET startRow == (row \div BOX) * BOX
         startCol == (col \div BOX) * BOX
     IN \A r \in startRow .. (startRow + BOX - 1) :
          \A c \in startCol .. (startCol + BOX - 1) : board[r][c] # val

\* The candidate list counted down from N.
Descending == [i \in Digits |-> N + 1 - i]

\* The candidate list of solver.js:17-18 before any shuffle: 1, 2, ..., N.
Ascending == [i \in Digits |-> i]

\* shuffle (Fisher-Yates over Math.random) can return every permutation.
shuffle(arr) ==
  {p \in [DOMAIN arr -> {arr[i] : i \in DOMAIN arr}] :
     \A a, b \in DOMAIN arr : a # b => p[a] # p[b]}

\* The callbacks passed as onSolution: none (null); the closure of
\* countSolutions, which counts and asks to stop at the second call; and, for
\* the callers solveBoard is exported to, closures that count and ask to
\* stop at the first call, at the third, or never.
NoCallback == "none"

CountCallback == "count"

Callbacks == {CountCallback, "first", "third", "never"}

\* The closure of countSolutions asking to stop at the third call.
onSolutionReturnsLate(onSolution, n) ==
  CASE onSolution = CountCallback -> n >= 3
    [] onSolution = "first" -> n >= 1
    [] onSolution = "third" -> n >= 3
    [] OTHER -> FALSE

\* What the n-th call of the callback returns (generator.js:76-77 for the
\* closure of countSolutions).
onSolutionReturns(onSolution, n) ==
  CASE onSolution = CountCallback -> n >= 2
    [] onSolution = "first" -> n >= 1
    [] onSolution = "third" -> n >= 3
    [] OTHER -> FALSE

(***************************************************************************)
(* solveBoard with randomize = false.  The result is the returned boolean  *)
(* together with what the call leaves behind: the grid (the source mutates *)
(* it in place) and the counter of the callback's closure.                 *)
(***************************************************************************)
RECURSIVE solveBoard(_, _, _), tryCandidates(_, _, _, _, _, _, _)

\* solveBoard returning the callback's answer on a full grid even when
\* there is no callback.
solveBoardNoCallbackTest(board, onSolution, count) ==
  LET empty == findEmpty(board)
  IN IF empty = Null
     THEN IF onSolution # NoCallback
          THEN [done |-> onSolutionReturns(onSolution, count + 1),
                board |-> board, count |-> count + 1]
          ELSE [done |-> FALSE, board |-> board, count |-> count]
     ELSE tryCandidates(board, empty[1], empty[2], Ascending, 1, onSolution, count)

solveBoard(board, onSolution, count) ==
  LET empty == findEmpty(board)
  IN IF empty = Null
     THEN IF onSolution # NoCallback
          THEN [done |-> onSolutionReturns(onSolution, count + 1),
                board |-> board, count |-> count + 1]
          ELSE [done |-> TRUE, board |-> board, count |-> count]
     ELSE tryCandidates(board, empty[1], empty[2], Ascending, 1, onSolution, count)

\* tryCandidates testing each candidate without the column half of isSafe.
tryCandidatesNoColumn(board, row, col, candidates, i, onSolution, count) ==
  IF i > Len(candidates)
  THEN [done |-> FALSE, board |-> board, count |-> count]
  ELSE LET num == candidates[i]
       IN IF isSafeNoColumn(board, row, col, num)
          THEN LET res == solveBoard([board EXCEPT ![row][col] = num], onSolution, count)
               IN IF res.done
                  THEN res
                  ELSE tryCandidates([res.board EXCEPT ![row][col] = 0], row, col,
                                     candidates, i + 1, onSolution, res.count)
          ELSE tryCandidates([board EXCEPT ![row][col] = 0], row, col,
                             candidates, i + 1, onSolution, count)

\* tryCandidates without line 28, the reset of the cell after a candidate.
tryCandidatesNoReset(board, row, col, candidates, i, onSolution, count) ==
  IF i > Len(candidates)
  THEN [done |-> FALSE, board |-> board, count |-> count]
  ELSE LET num == candidates[i]
       IN IF isSafe(board, row, col, num)
          THEN LET res == solveBoard([board EXCEPT ![row][col] = num], onSolution, count)
               IN IF res.done
                  THEN res
                  ELSE tryCandidates(res.board, row, col,
                                     candidates, i + 1, onSolution, res.count)
          ELSE tryCandidates(board, row, col, candidates, i + 1, onSolution, count)

\* tryCandidates without line 26: a callback's request to stop is not
\* passed up.
tryCandidatesIgnoresStop(board, row, col, candidates, i, onSolution, count) ==
  IF i > Len(candidates)
  THEN [done |-> FALSE, board |-> board, count |-> count]
  ELSE LET num == candidates[i]
       IN IF isSafe(board, row, col, num)
          THEN LET res == solveBoard([board EXCEPT ![row][col] = num], onSolution, count)
               IN IF res.done /\ onSolution = NoCallback
                  THEN res
                  ELSE tryCandidates([res.board EXCEPT ![row][col] = 0], row, col,
                                     candidates, i + 1, onSolution, res.count)
          ELSE tryCandidates([board EXCEPT ![row][col] = 0], row, col,
                             candidates, i + 1, onSolution, count)

\* tryCandidates testing each candidate against its row and column only.
tryCandidatesNoBox(board, row, col, candidates, i, onSolution, count) ==
  IF i > Len(candidates)
  THEN [done |-> FALSE, board |-> board, count |-> count]
  ELSE LET num == candidates[i]
       IN IF \A k \in Idx : board[row][k] # num /\ board[k][col] # num
          THEN LET res == solveBoard([board EXCEPT ![row][col] = num], onSolution, count)
               IN IF res.done
                  THEN res
                  ELSE tryCandidates([res.board EXCEPT ![row][col] = 0], row, col,
                                     candidates, i + 1, onSolution, res.count)
          ELSE tryCandidates([board EXCEPT ![row][col] = 0], row, col,
                             candidates, i + 1, onSolution, count)

\* The loop of solver.js:21-29 from the i-th candidate on, and line 31.
tryCandidates(board, row, col, candidates, i, onSolution, count) ==
  IF i > Len(candidates)
  THEN [done |-> FALSE, board |-> board, count |-> count]
  ELSE LET num == candidates[i]
       IN IF isSafe(board, row, col, num)
          THEN LET res == solveBoard([board EXCEPT ![row][col] = num], onSolution, count)
               IN IF res.done
                  THEN res
                  ELSE tryCandidates([res.board EXCEPT ![row][col] = 0], row, col,
                                     candidates, i + 1, onSolution, res.count)
          ELSE tryCandidates([board EXCEPT ![row][col] = 0], row, col,
                             candidates, i + 1, onSolution, count)

(***************************************************************************)
(* solveBoard with randomize = true and no callback: the set of results    *)
(* {done, board} the call can have, over every order each shuffle of the   *)
(* recursion can produce.  sub tabulates the recursive call per candidate  *)
(* on the grid as it is at the loop's start; a recursive call on any other *)
(* grid (a failed call that left the grid changed) is evaluated afresh.    *)
(***************************************************************************)
RECURSIVE solveBoardRandom(_), tryShuffled(_, _, _, _, _, _, _)

solveBoardRandom(board) ==
  LET empty == findEmpty(board)
  IN IF empty = Null
     THEN {[done |-> TRUE, board |-> board]}
     ELSE LET row == empty[1]
              col == empty[2]
              sub == {<<num, IF isSafe(board, row, col, num)
                             THEN solveBoardRandom([board EXCEPT ![row][col] = num])
                             ELSE {}>> : num \in Digits}
          IN UNION {tryShuffled(board, board, row, col, candidates, 1, sub)
                      : candidates \in shuffle(Ascending)}

tryShuffled(start, board, row, col, candidates, i, sub) ==
  IF i > Len(candidates)
  THEN {[done |-> FALSE, board |-> board]}
  ELSE LET num == candidates[i]
       IN IF isSafe(board, row, col, num)
          THEN LET results == IF board = start
                              THEN (CHOOSE pr \in sub : pr[1] = num)[2]
                              ELSE solveBoardRandom([board EXCEPT ![row][col] = num])
               IN {res \in results : res.done} \cup
                  UNION {tryShuffled(start, [res.board EXCEPT ![row][col] = 0], row, col,
                                     candidates, i + 1, sub)
                           : res \in {x \in results : ~x.done}}
          ELSE tryShuffled(start, [board EXCEPT ![row][col] = 0], row, col,
                           candidates, i + 1, sub)

(***************************************************************************)
(* generator.js                                                            *)
(***************************************************************************)

MAX_GENERATION_ATTEMPTS == 8

\* JavaScript's undefined: a missing argument, a property that is not there.
Undefined == "undefined"

\* A JavaScript value that is a number, and the two kinds that are not.
Num(n) == [type |-> "number", value |-> n]

UndefinedValue == [type |-> "undefined"]

FunctionValue == [type |-> "function"]

\* A number of cells of the 81 of the source's grid, as the same share of
\* the N*N cells of the model's grid, rounded down as removed counts cells.
\* With BOX = 3 it is the number itself.
scaled(n) == (n * N * N) \div 81

\* removalMap, the object literal of carvePuzzle: its own properties, the
\* targets 45, 55, 62 and 70 as shares of the grid.
removalMap ==
  [easy |-> Num(scaled(45)), medium |-> Num(scaled(55)),
   hard |-> Num(scaled(62)), expert |-> Num(scaled(70))]

\* removalMap is a plain object, so removalMap[key] also finds what the
\* object inherits from Object.prototype: functions and objects, not numbers.
ObjectPrototypeKeys ==
  {"constructor", "toString", "valueOf", "hasOwnProperty", "__proto__"}

\* removalMap[key]
removalMapGet(key) ==
  IF key \in DOMAIN removalMap THEN removalMap[key]
  ELSE IF key \in ObjectPrototypeKeys THEN FunctionValue
  ELSE UndefinedValue

\* const toRemove = removalMap[difficulty] ?? removalMap.medium
toRemoveFor(difficulty) ==
  LET v == removalMapGet(difficulty)
  IN IF v.type \in {"undefined", "null"} THEN removalMap.medium ELSE v

\* removed >= toRemove: a comparison with a value that is no number (NaN
\* once converted) is false.
reachedTarget(removed, toRemove) ==
  toRemove.type = "number" /\ removed >= toRemove.value

\* The default of generatePuzzle's parameter: difficulty = 'medium'.
defaultDifficulty(difficulty) ==
  IF difficulty = Undefined THEN "medium" ELSE difficulty

\* cloneBoard: a copy of the grid; grids are values here.
cloneBoard(board) == board

\* countSolutions with a callback that stops at the first solution.
countSolutionsStopAtFirst(board) ==
  IF solveBoard(board, NoCallback, 0).done THEN 1 ELSE 0

\* countSolutions: the solver in enumeration mode, stopping at the second.
countSolutions(board) ==
  solveBoard(board, CountCallback, 0).count

boardsEqual(a, b) ==
  IF a = Null \/ b = Null THEN FALSE
  ELSE \A r \in Idx : \A c \in Idx : a[r][c] = b[r][c]

\* hasAllDigits with its loop over the digits starting at 0 and ending one
\* short.
hasAllDigitsFromZero(values) ==
  LET seen == {values[i] : i \in DOMAIN values}
  IN /\ Len(values) = N
     /\ Cardinality(seen) = N
     /\ \A n \in 0 .. (N - 1) : n \in seen

\* hasAllDigits over a list of N values (given as the set of its indices
\* and the value at each): N distinct values, each of 1 .. N among them.
hasAllDigits(values) ==
  LET seen == {values[i] : i \in DOMAIN values}
  IN /\ Len(values) = N
     /\ Cardinality(seen) = N
     /\ \A n \in Digits : n \in seen

rowList(board, r) == [i \in 1 .. N |-> board[r][i - 1]]

colList(board, c) == [i \in 1 .. N |-> board[i - 1][c]]

boxList(board, br, bc) ==
  [i \in 1 .. N |-> board[br * BOX + ((i - 1) \div BOX)][bc * BOX + ((i - 1) % BOX)]]

isCompleteAndValid(board) ==
  /\ \A r \in Idx : hasAllDigits(rowList(board, r))
  /\ \A c \in Idx : hasAllDigits(colList(board, c))
  /\ \A br \in 0 .. (BOX - 1) : \A bc \in 0 .. (BOX - 1) :
       hasAllDigits(boxList(board, br, bc))

\* generateSolvedBoard: the grids a randomized solve of the empty grid can
\* leave, and Null where the solve can return false.
generateSolvedBoard ==
  {IF res.done THEN cloneBoard(res.board) ELSE Null
     : res \in solveBoardRandom(EmptyBoard)}

\* validatePuzzle handing back the puzzle where the solution belongs.
validatePuzzleReturnsPuzzle(puzzle, expectedSolution) ==
  LET res == solveBoard(cloneBoard(puzzle), NoCallback, 0)
      solvedBoard == res.board
  IN IF ~res.done THEN [valid |-> FALSE, reason |-> "no-solution"]
     ELSE IF ~isCompleteAndValid(solvedBoard)
     THEN [valid |-> FALSE, reason |-> "invalid-solution"]
     ELSE IF countSolutions(cloneBoard(puzzle)) # 1
     THEN [valid |-> FALSE, reason |-> "non-unique"]
     ELSE [valid |-> TRUE, solution |-> puzzle]

validatePuzzle(puzzle, expectedSolution) ==
  LET res == solveBoard(cloneBoard(puzzle), NoCallback, 0)
      solvedBoard == res.board
  IN IF ~res.done THEN [valid |-> FALSE, reason |-> "no-solution"]
     ELSE IF ~isCompleteAndValid(solvedBoard)
     THEN [valid |-> FALSE, reason |-> "invalid-solution"]
     ELSE IF countSolutions(cloneBoard(puzzle)) # 1
     THEN [valid |-> FALSE, reason |-> "non-unique"]
     ELSE LET matchesExpected ==
                expectedSolution # Null /\ boardsEqual(solvedBoard, expectedSolution)
          IN [valid |-> TRUE,
              solution |-> IF matchesExpected THEN expectedSolution ELSE solvedBoard]

\* carveStep keeping the removal whenever a solution is left, not only one.
carveStepKeepsSolvable(puzzle, removed, pos) ==
  LET r == pos \div N
      c == pos % N
      backup == puzzle[r][c]
      zeroed == [puzzle EXCEPT ![r][c] = 0]
      solutions == countSolutions(cloneBoard(zeroed))
  IN IF solutions = 0
     THEN [puzzle |-> [zeroed EXCEPT ![r][c] = backup], removed |-> removed]
     ELSE [puzzle |-> zeroed, removed |-> removed + 1]

\* carveStep putting back the digit after the backup instead of the backup.
carveStepWrongRestore(puzzle, removed, pos) ==
  LET r == pos \div N
      c == pos % N
      backup == puzzle[r][c]
      zeroed == [puzzle EXCEPT ![r][c] = 0]
      solutions == countSolutions(cloneBoard(zeroed))
  IN IF solutions # 1
     THEN [puzzle |-> [zeroed EXCEPT ![r][c] = (backup % N) + 1], removed |-> removed]
     ELSE [puzzle |-> zeroed, removed |-> removed + 1]

\* One iteration of the loop of carvePuzzle (generator.js:43-52) at pos.
carveStep(puzzle, removed, pos) ==
  LET r == pos \div N
      c == pos % N
      backup == puzzle[r][c]
      zeroed == [puzzle EXCEPT ![r][c] = 0]
      solutions == countSolutions(cloneBoard(zeroed))
  IN IF solutions # 1
     THEN [puzzle |-> [zeroed EXCEPT ![r][c] = backup], removed |-> removed]
     ELSE [puzzle |-> zeroed, removed |-> removed + 1]

\* carvePuzzle's loop (generator.js:41-54) over the rest of the shuffled list.
RECURSIVE carveLoop(_, _, _, _)

carveLoop(puzzle, removed, positions, toRemove) ==
  IF positions = <<>> \/ reachedTarget(removed, toRemove)
  THEN puzzle
  ELSE LET step == carveStep(puzzle, removed, Head(positions))
       IN carveLoop(step.puzzle, step.removed, Tail(positions), toRemove)

\* carvePuzzle, for the list of coordinates its shuffle returned.
carvePuzzle(solved, difficulty, positions) ==
  carveLoop(cloneBoard(solved), 0, positions, toRemoveFor(difficulty))

\* One attempt of generatePuzzle (generator.js:14-18) on a solved grid: the
\* pair it returns, or Null when the validation fails.
generateFrom(solved, difficulty, positions) ==
  LET carved == carvePuzzle(solved, difficulty, positions)
      validation == validatePuzzle(carved, solved)
  IN IF validation.valid
     THEN [puzzle |-> carved, solution |-> validation.solution]
     ELSE Null

(***************************************************************************)
(* board.js: SudokuBoard.  grid and notes are the fields the methods       *)
(* change; notes[r][c] is the Set of the cell.                             *)
(***************************************************************************)
NoNotes == [r \in Idx |-> [c \in Idx |-> {}]]

\* this.givens of the constructor.
givensOf(puzzle) == [r \in Idx |-> [c \in Idx |-> puzzle[r][c] # 0]]

\* isGiven answering false for every cell.
isGivenNever(gv, row, col) == FALSE

isGiven(gv, row, col) == gv[row][col]

\* setValue without the clear() of the cell's notes.
setValueKeepsNotes(grid, notes, row, col, value) ==
  [grid |-> [grid EXCEPT ![row][col] = value], notes |-> notes]

setValue(grid, notes, row, col, value) ==
  [grid |-> [grid EXCEPT ![row][col] = value],
   notes |-> [notes EXCEPT ![row][col] = {}]]

clearValue(grid, notes, row, col) ==
  [grid |-> [grid EXCEPT ![row][col] = 0],
   notes |-> [notes EXCEPT ![row][col] = {}]]

\* toggleNote adding the value whether or not the Set has it.
toggleNoteAddOnly(grid, notes, row, col, value) ==
  IF grid[row][col] # 0 THEN [grid |-> grid, notes |-> notes]
  ELSE [grid |-> grid, notes |-> [notes EXCEPT ![row][col] = @ \cup {value}]]

toggleNote(grid, notes, row, col, value) ==
  IF grid[row][col] # 0 THEN [grid |-> grid, notes |-> notes]
  ELSE IF value \in notes[row][col]
  THEN [grid |-> grid, notes |-> [notes EXCEPT ![row][col] = @ \ {value}]]
  ELSE [grid |-> grid, notes |-> [notes EXCEPT ![row][col] = @ \cup {value}]]

clearNotes(grid, notes, row, col) ==
  [grid |-> grid, notes |-> [notes EXCEPT ![row][col] = {}]]

\* clearNotesInPeers without its loop over the box.
clearNotesInPeersNoBox(grid, notes, row, col, value) ==
  IF value = 0 THEN [grid |-> grid, notes |-> notes]
  ELSE [grid |-> grid,
        notes |-> [r \in Idx |-> [c \in Idx |->
                     IF ((r = row /\ c # col) \/ (c = col /\ r # row)) /\ grid[r][c] = 0
                     THEN notes[r][c] \ {value}
                     ELSE notes[r][c]]]]

\* The three loops of clearNotesInPeers delete value from the notes of the
\* empty cells of the row, of the column and of the box, the cell excepted.
clearNotesInPeers(grid, notes, row, col, value) ==
  IF value = 0 THEN [grid |-> grid, notes |-> notes]
  ELSE LET startRow == (row \div BOX) * BOX
           startCol == (col \div BOX) * BOX
           inRow(r, c) == r = row /\ c # col
           inCol(r, c) == c = col /\ r # row
           inBox(r, c) == /\ r \in startRow .. (startRow + BOX - 1)
                          /\ c \in startCol .. (startCol + BOX - 1)
                          /\ (r # row \/ c # col)
       IN [grid |-> grid,
           notes |-> [r \in Idx |-> [c \in Idx |->
                        IF (inRow(r, c) \/ inCol(r, c) \/ inBox(r, c)) /\ grid[r][c] = 0
                        THEN notes[r][c] \ {value}
                        ELSE notes[r][c]]]]

\* isValidPlacement without its third loop.
isValidPlacementNoBox(grid, row, col, value) ==
  IF value = 0 THEN TRUE
  ELSE /\ \A c \in Idx : ~(c # col /\ grid[row][c] = value)
       /\ \A r \in Idx : ~(r # row /\ grid[r][col] = value)

isValidPlacement(grid, row, col, value) ==
  IF value = 0 THEN TRUE
  ELSE /\ \A c \in Idx : ~(c # col /\ grid[row][c] = value)
       /\ \A r \in Idx : ~(r # row /\ grid[r][col] = value)
       /\ LET startRow == (row \div BOX) * BOX
              startCol == (col \div BOX) * BOX
          IN \A r \in startRow .. (startRow + BOX - 1) :
               \A c \in startCol .. (startCol + BOX - 1) :
                 (r = row /\ c = col) \/ grid[r][c] # value

\* computeConflicts: the coordinates added to the Set.
computeConflicts(grid) ==
  {a \in Idx \X Idx :
     grid[a[1]][a[2]] # 0 /\ ~isValidPlacement(grid, a[1], a[2], grid[a[1]][a[2]])}

\* isSolved taking every full grid for solved.
isSolvedWhenFull(grid, solution) ==
  \A r \in Idx : \A c \in Idx : grid[r][c] # 0

isSolved(grid, solution) ==
  \A r \in Idx : \A c \in Idx : grid[r][c] # 0 /\ grid[r][c] = solution[r][c]

\* this.grid[row], this.grid.map((r) => r[col]) and the box of the cell, as
\* lists in the order the source builds them.
rowValues(grid, row) == [i \in 1 .. N |-> grid[row][i - 1]]

colValues(grid, col) == [i \in 1 .. N |-> grid[i - 1][col]]

boxValues(grid, row, col) ==
  LET startRow == (row \div BOX) * BOX
      startCol == (col \div BOX) * BOX
  IN [i \in 1 .. N |-> grid[startRow + ((i - 1) \div BOX)][startCol + ((i - 1) % BOX)]]

\* availableCandidates leaving the box of the cell out of the used digits.
availableCandidatesNoBox(grid, row, col) ==
  IF grid[row][col] # 0 THEN <<>>
  ELSE LET all == rowValues(grid, row) \o colValues(grid, col)
           used == {all[i] : i \in DOMAIN all} \ {0}
       IN SelectSeq([v \in 1 .. N |-> v], LAMBDA v : v \notin used)

availableCandidates(grid, row, col) ==
  IF grid[row][col] # 0 THEN <<>>
  ELSE LET all == rowValues(grid, row) \o colValues(grid, col) \o boxValues(grid, row, col)
           used == {all[i] : i \in DOMAIN all} \ {0}
       IN SelectSeq([v \in 1 .. N |-> v], LAMBDA v : v \notin used)

\* findHint taking any empty cell that has a candidate.
findHintAnyCandidate(grid) ==
  LET hits == {r * N + c : <<r, c>> \in
                 {a \in Idx \X Idx : /\ grid[a[1]][a[2]] = 0
                                     /\ Len(availableCandidates(grid, a[1], a[2])) >= 1}}
  IN IF hits = {} THEN Null
     ELSE LET k == CHOOSE x \in hits : \A y \in hits : x <= y
          IN [row |-> k \div N, col |-> k % N,
              value |-> availableCandidates(grid, k \div N, k % N)[1]]

\* findHint naming the hinted cell with its row and column exchanged.
findHintSwapsCell(grid) ==
  LET hits == {r * N + c : <<r, c>> \in
                 {a \in Idx \X Idx : /\ grid[a[1]][a[2]] = 0
                                     /\ Len(availableCandidates(grid, a[1], a[2])) = 1}}
  IN IF hits = {} THEN Null
     ELSE LET k == CHOOSE x \in hits : \A y \in hits : x <= y
          IN [row |-> k % N, col |-> k \div N,
              value |-> availableCandidates(grid, k \div N, k % N)[1]]

\* findHint: the first cell of the row-major scan that is empty and has one
\* candidate, with the candidate; Null when the scan ends.
findHint(grid) ==
  LET hits == {r * N + c : <<r, c>> \in
                 {a \in Idx \X Idx : /\ grid[a[1]][a[2]] = 0
                                     /\ Len(availableCandidates(grid, a[1], a[2])) = 1}}
  IN IF hits = {} THEN Null
     ELSE LET k == CHOOSE x \in hits : \A y \in hits : x <= y
          IN [row |-> k \div N, col |-> k % N,
              value |-> availableCandidates(grid, k \div N, k % N)[1]]

\* resetToPuzzle starting from an empty grid instead of the puzzle.
resetToPuzzleBlank(puzzle) ==
  [grid |-> EmptyBoard, notes |-> NoNotes, shared |-> FALSE]

\* resetToPuzzle without the copy of the rows: this.grid = this.puzzle.
resetToPuzzleNoCopy(puzzle) ==
  [grid |-> puzzle, notes |-> NoNotes, shared |-> TRUE]

\* The rows of this.puzzle and of this.grid are arrays.  The constructor and
\* resetToPuzzle copy every row (puzzle.map((row) => [...row])), so the two
\* grids share no row; shared tells whether they do, in which case a write
\* to a cell of this.grid is a write to this.puzzle.
resetToPuzzle(puzzle) ==
  [grid |-> puzzle, notes |-> NoNotes, shared |-> FALSE]

(***************************************************************************)
(* Inputs.                                                                 *)
(***************************************************************************)

\* The difficulty argument: the four names, a missing argument, a name the
\* map does not know, and a name every JavaScript object knows.
DifficultyInputs ==
  {"easy", "medium", "hard", "expert", Undefined, "insane", "toString"}

\* The difficulties the runs of generatePuzzle are explored with: a target
\* that carving reaches, the default, and a name every object knows.
GenDifficultyInputs == {"easy", Undefined, "toString"}

\* The outcomes of shuffle over the N*N coordinates that the model draws
\* from: the coordinates walked from offset s with stride k, for the strides
\* 1 (row by row) and N+1 (along the diagonals), both coprime to N*N.
NumOffsets == 1

walk(s, k) == [i \in 1 .. (N * N) |-> (s + k * (i - 1)) % (N * N)]

ShuffledPositions ==
  {walk(s, k) : s \in 0 .. (NumOffsets - 1), k \in {1, N + 1}}

\* The values of removed the loop test of carvePuzzle is explored with.
MaxRemoved == 81

(***************************************************************************)
(* What a valid completion is, stated without the solver: the complete     *)
(* grids in which no two cells of a row, a column or a box hold the same   *)
(* digit, built row by row from the permutations of 1 .. N.                *)
(***************************************************************************)
Cells == Idx \X Idx

SameUnit(a, b) ==
  \/ a[1] = b[1]
  \/ a[2] = b[2]
  \/ (a[1] \div BOX = b[1] \div BOX /\ a[2] \div BOX = b[2] \div BOX)

ValidComplete(g) ==
  /\ \A a \in Cells : g[a[1]][a[2]] \in Digits
  /\ \A a, b \in Cells : (a # b /\ SameUnit(a, b)) => g[a[1]][a[2]] # g[b[1]][b[2]]

RowPerms == {p \in [Idx -> Digits] : \A a, b \in Idx : a # b => p[a] # p[b]}

RowFits(g, k, row) ==
  \A r \in 0 .. (k - 1) : \A c, d \in Idx :
    SameUnit(<<r, c>>, <<k, d>>) => g[r][c] # row[d]

RECURSIVE GridsUpTo(_)

GridsUpTo(k) ==
  IF k = 0 THEN {<<>>}
  ELSE {[r \in 0 .. (k - 1) |-> IF r < k - 1 THEN g[r] ELSE row]
          : <<g, row>> \in {pr \in GridsUpTo(k - 1) \X RowPerms : RowFits(pr[1], k - 1, pr[2])}}

AllValidGrids == GridsUpTo(N)

Completions(p) ==
  {g \in AllValidGrids : \A a \in Cells : p[a[1]][a[2]] # 0 => g[a[1]][a[2]] = p[a[1]][a[2]]}

Blanks(p) == {a \in Cells : p[a[1]][a[2]] = 0}

\* No two pre-filled cells of a row, a column or a box hold the same digit.
NoGivenConflict(p) ==
  \A a, b \in Cells :
    (a # b /\ SameUnit(a, b) /\ p[a[1]][a[2]] # 0) => p[a[1]][a[2]] # p[b[1]][b[2]]

(***************************************************************************)
(* Inputs of the solver and boards of the game.                            *)
(***************************************************************************)

\* The complete grids that start with the rows 1 2 .. N and BOX+1 .. N 1 .. BOX.
IsBaseGrid(g) ==
  /\ g[0] = [c \in Idx |-> c + 1]
  /\ g[1] = [c \in Idx |-> ((c + BOX) % N) + 1]

BaseGrids == {g \in AllValidGrids : IsBaseGrid(g)}

\* The grids passed to solveBoard: every complete valid grid; the base
\* grids with up to MaxBlanks cells blanked and any digit in the first cell;
\* and the base grids with only the cells lo .. hi-1 of the row-major order
\* kept, from the first cell on or up to the last.
MaxBlanks == 3

edit(g, blanked, v) ==
  [r \in Idx |-> [c \in Idx |->
     IF <<r, c>> \in blanked THEN 0
     ELSE IF r = 0 /\ c = 0 THEN v
     ELSE g[r][c]]]

window(g, lo, hi) ==
  [r \in Idx |-> [c \in Idx |->
     IF lo <= r * N + c /\ r * N + c < hi THEN g[r][c] ELSE 0]]

SolveInputs ==
  AllValidGrids \cup
  {edit(g, blanked, v) : g \in BaseGrids, v \in Digits,
                         blanked \in {b \in SUBSET Cells : Cardinality(b) <= MaxBlanks}} \cup
  {window(g, 0, hi) : g \in BaseGrids, hi \in 0 .. (N * N)} \cup
  {window(g, lo, N * N) : g \in BaseGrids, lo \in 0 .. (N * N)}

\* The pairs the boards of the game are built from: what generatePuzzle
\* returns when generateSolvedBoard gave a base grid and the coordinates
\* came shuffled along the diagonals.
BoardPairs ==
  {generateFrom(s, "medium", walk(0, N + 1))
     : s \in {g \in generateSolvedBoard : g # Null /\ IsBaseGrid(g)}} \ {Null}

\* The grids of the saved games restoreGameState is explored with: the
\* puzzle with the solution filled in, up to MaxOpen blanks left open.
MaxOpen == 1

SavedGrids(pair) ==
  {[r \in Idx |-> [c \in Idx |->
      IF <<r, c>> \in open THEN 0 ELSE pair.solution[r][c]]]
     : open \in {o \in SUBSET Blanks(pair.puzzle) : Cardinality(o) <= MaxOpen}}

(***************************************************************************)
(* renderer.js: the handlers of the game screen.  u is the state they work *)
(* on: the board's grid and notes (grid is Null while board is null),      *)
(* selected, notesMode, activeNumber (0 for null), completedDigits and the *)
(* two stacks.  gv is board.givens, sol board.solution, auto the setting   *)
(* userSettings.autoNotes !== false.  What the handlers do to the page,    *)
(* the timer, the statistics and the saved preferences is left out: no     *)
(* handler reads it back into the board.                                   *)
(***************************************************************************)
\* Only the first UNDO_LIMIT snapshots pushed are kept.
UNDO_LIMIT == 200

computeCompletedDigits(g, sol) ==
  {v \in Digits :
     Cardinality({a \in Cells : g[a[1]][a[2]] = v /\ sol[a[1]][a[2]] = v}) = N}

\* What updateNumberPad returns: whether it cleared the active number.
updateNumberPad(active, doneSet) ==
  \/ active \in doneSet
  \/ (Cardinality(doneSet) = N /\ active # 0)

refreshGrid(u, sol) ==
  IF u.grid = Null THEN u
  ELSE LET done == computeCompletedDigits(u.grid, sol)
           cleared == updateNumberPad(u.activeNumber, done)
       IN [u EXCEPT !.completedDigits = done,
                    !.activeNumber = IF cleared THEN 0 ELSE @,
                    !.selected = IF cleared THEN Null ELSE @]

setActiveNumber(u, val, clearSelection, sol) ==
  LET v == IF val # 0 /\ val \in u.completedDigits THEN 0 ELSE val
  IN refreshGrid([u EXCEPT !.selected = IF clearSelection THEN Null ELSE @,
                           !.activeNumber = v], sol)

setNotesMode(u, on, sol) ==
  LET currentActive == u.activeNumber
      u1 == [u EXCEPT !.notesMode = on]
  IN IF currentActive # 0 THEN setActiveNumber(u1, currentActive, FALSE, sol)
     ELSE refreshGrid(u1, sol)

\* snapshotBoard copies the rows of the grid and the sets of the notes.
snapshotBoard(u) ==
  [grid |-> u.grid, notes |-> u.notes, selected |-> u.selected,
   notesMode |-> u.notesMode, activeNumber |-> u.activeNumber]

\* restoreBoard leaving the notes as they are.
restoreBoardGridOnly(u, snapshot, sol) ==
  LET u1 == [u EXCEPT !.grid = snapshot.grid,
                      !.selected = snapshot.selected]
      u2 == setNotesMode(u1, snapshot.notesMode, sol)
  IN setActiveNumber(u2, snapshot.activeNumber, FALSE, sol)

restoreBoard(u, snapshot, sol) ==
  LET u1 == [u EXCEPT !.grid = snapshot.grid,
                      !.notes = snapshot.notes,
                      !.selected = snapshot.selected]
      u2 == setNotesMode(u1, snapshot.notesMode, sol)
  IN setActiveNumber(u2, snapshot.activeNumber, FALSE, sol)

pushUndo(u, snapshot) ==
  LET pushed == Append(u.undoStack, snapshot)
  IN [u EXCEPT !.undoStack = IF Len(pushed) > UNDO_LIMIT THEN Tail(pushed) ELSE pushed,
               !.redoStack = <<>>]

\* Lines 748-758 and 908-917: a digit on a cell outside notes mode clears
\* the cell when it holds the digit and writes the digit otherwise.
writeDigit(u, auto, row, col, val) ==
  IF u.grid[row][col] = val
  THEN LET b1 == clearValue(u.grid, u.notes, row, col)
           b2 == clearNotes(b1.grid, b1.notes, row, col)
       IN [u EXCEPT !.grid = b2.grid, !.notes = b2.notes]
  ELSE LET b1 == setValue(u.grid, u.notes, row, col, val)
           b2 == IF auto THEN clearNotesInPeers(b1.grid, b1.notes, row, col, val) ELSE b1
       IN [u EXCEPT !.grid = b2.grid, !.notes = b2.notes]

\* handleCellClick past its test of dealing.
handleCellClick(u, gv, sol, auto, row, col) ==
  LET u1 == [u EXCEPT !.selected = <<row, col>>]
  IN IF u.grid = Null \/ isGiven(gv, row, col) THEN u1
     ELSE IF u1.notesMode
     THEN IF u1.activeNumber = 0 THEN u1
          ELSE LET prev == snapshotBoard(u1)
                   b == toggleNote(u1.grid, u1.notes, row, col, u1.activeNumber)
               IN refreshGrid(pushUndo([u1 EXCEPT !.grid = b.grid, !.notes = b.notes], prev), sol)
     ELSE IF u1.activeNumber # 0
     THEN LET prev == snapshotBoard(u1)
          IN refreshGrid(pushUndo(writeDigit(u1, auto, row, col, u1.activeNumber), prev), sol)
     ELSE refreshGrid(u1, sol)

selectNumber(u, val, sol) ==
  IF val \in u.completedDigits THEN setActiveNumber(u, 0, TRUE, sol)
  ELSE IF u.activeNumber = val THEN setActiveNumber(u, 0, TRUE, sol)
  ELSE setActiveNumber(u, val, TRUE, sol)

\* handleKeyDown past its tests of dealing and board: the cell the key
\* goes to.
keySelection(u) == IF u.selected = Null THEN [u EXCEPT !.selected = <<0, 0>>] ELSE u

\* setValue of the renderer (lines 896-929), the handler of a digit key.
rendererSetValue(u, gv, sol, auto, val) ==
  IF val \in u.completedDigits THEN setActiveNumber(u, 0, FALSE, sol)
  ELSE IF isGiven(gv, u.selected[1], u.selected[2]) THEN u
  ELSE LET prev == snapshotBoard(u)
           row == u.selected[1]
           col == u.selected[2]
       IN IF u.notesMode
          THEN LET b == toggleNote(u.grid, u.notes, row, col, val)
               IN refreshGrid(pushUndo([u EXCEPT !.grid = b.grid, !.notes = b.notes], prev), sol)
          ELSE refreshGrid(pushUndo(writeDigit(u, auto, row, col, val), prev), sol)

clearSelectedCell(u, gv, sol) ==
  IF isGiven(gv, u.selected[1], u.selected[2]) THEN u
  ELSE LET prev == snapshotBoard(u)
           b1 == clearValue(u.grid, u.notes, u.selected[1], u.selected[2])
           b2 == clearNotes(b1.grid, b1.notes, u.selected[1], u.selected[2])
       IN refreshGrid(pushUndo([u EXCEPT !.grid = b2.grid, !.notes = b2.notes], prev), sol)

undoMove(u, sol) ==
  IF u.grid = Null \/ u.undoStack = <<>> THEN u
  ELSE LET prev == u.undoStack[Len(u.undoStack)]
           u1 == [u EXCEPT !.undoStack = SubSeq(@, 1, Len(@) - 1),
                           !.redoStack = Append(@, snapshotBoard(u))]
       IN refreshGrid(restoreBoard(u1, prev, sol), sol)

redoMove(u, sol) ==
  IF u.grid = Null \/ u.redoStack = <<>> THEN u
  ELSE LET next == u.redoStack[Len(u.redoStack)]
           u1 == [u EXCEPT !.redoStack = SubSeq(@, 1, Len(@) - 1),
                           !.undoStack = Append(@, snapshotBoard(u))]
       IN refreshGrid(restoreBoard(u1, next, sol), sol)

\* restartPuzzle up to its call of runDealAnimation.
restartPuzzle(u, puz, sol) ==
  LET b == resetToPuzzle(puz)
      u1 == [u EXCEPT !.grid = b.grid, !.notes = b.notes, !.selected = Null,
                      !.completedDigits = {}, !.undoStack = <<>>, !.redoStack = <<>>]
      u2 == refreshGrid(u1, sol)
      u3 == setNotesMode(u2, FALSE, sol)
  IN setActiveNumber(u3, 0, FALSE, sol)

clearBoardChanges(u, puz, sol) ==
  LET b == resetToPuzzle(puz)
      u1 == [u EXCEPT !.grid = b.grid, !.notes = b.notes, !.selected = Null,
                      !.completedDigits = {}, !.undoStack = <<>>, !.redoStack = <<>>]
  IN refreshGrid(setActiveNumber(u1, 0, TRUE, sol), sol)

\* Lines 688-705 of newGame: the new board and the state of the screen.
startBoard(u, pair) ==
  LET u1 == [u EXCEPT !.grid = cloneBoard(pair.puzzle), !.notes = NoNotes, !.selected = Null]
      u2 == setNotesMode(u1, FALSE, pair.solution)
      u3 == setActiveNumber(u2, 0, FALSE, pair.solution)
      u4 == [u3 EXCEPT !.completedDigits = {}, !.undoStack = <<>>, !.redoStack = <<>>]
  IN refreshGrid(u4, pair.solution)

\* restoreGameState of a saved state (lines 466-489): the board, the screen
\* and the stacks.
restoreGameState(u, state) ==
  LET u1 == [u EXCEPT !.grid = state.grid, !.notes = state.notes, !.selected = Null]
      u2 == refreshGrid(u1, state.solution)
      u3 == setNotesMode(u2, state.notesMode, state.solution)
      u4 == setActiveNumber(u3, 0, TRUE, state.solution)
  IN [u4 EXCEPT !.undoStack = <<>>, !.redoStack = <<>>]

\* The givens runDealAnimation collects from the puzzle it is passed.
dealtGivens(puz) == {a \in Cells : puz[a[1]][a[2]] # 0}

\* The cells the calls of the board's methods are explored on: the first
\* NumPlayCells cells in row-major order; and the number of calls.
NumPlayCells == 5

PlayCells == {a \in Cells : a[1] * N + a[2] < NumPlayCells}

MaxOps == 2

(***************************************************************************)
(* State.  Five specifications share the variables; each one starts the    *)
(* others' variables idle and leaves them unchanged.                       *)
(*   Spec        generatePuzzle                                            *)
(*   SpecTarget  the removal target and the loop test of carvePuzzle       *)
(*   SpecSolve   solveBoard on a given grid                                *)
(*   SpecBoard   a SudokuBoard under the calls of its methods              *)
(*   SpecUi      the game screen of renderer.js: newGame and the handlers  *)
(***************************************************************************)
VARIABLES
  \* generatePuzzle: gpc is the place in it: "attempt" at the head of the
  \* for loop, "carve" inside carvePuzzle's loop, "returned" after the
  \* return, "failed" after the throw.  difficulty is the parameter after
  \* its default has been applied.
  gpc, difficulty, attempt, solved, puzzle, removed, positions, toRemove, ret,
  \* carvePuzzle's target: the argument, a value of removed, and what line
  \* 37 and the test of line 42 give.
  tpc, tDifficulty, tRemoved, tToRemove, tBreak,
  \* solveBoard: the grid as passed, the grid as the call leaves it, the
  \* randomize argument and the returned boolean.
  spc, sInput, sBoard, sRandomize, sDone,
  \* and, for a call with a callback, the callback and the number of times
  \* it was called.
  sCallback, sCount,
  \* SudokuBoard: its fields, whether this.grid shares its rows with
  \* this.puzzle, the number of calls made, and the last call (for findHint,
  \* with what it returned).
  bpc, bPuzzle, bSolution, givens, grid, notes, shared, ops, lastCall,
  \* The game screen of renderer.js: its selected, notesMode, activeNumber
  \* (0 for null), completedDigits, the autoNotes setting, undoStack and
  \* redoStack, dealing and loadingGame; the invocations of newGame and
  \* the deal animations that are running; the number of handlers run, and
  \* the last one when it was a click or a key that went to a given cell;
  \* and the last action that pushed an undo snapshot: the
  \* grid and notes before and after it, and whether an undo or an undo and
  \* a redo have followed it.
  selected, notesMode, activeNumber, completedDigits, autoNotes,
  undoStack, redoStack, dealing, loadingGame, calls, deals, uiOps, lastUi,
  hPhase, hBefore, hAfter,
  \* and the results of generatePuzzle the games are explored with.
  generated

genVars == <<gpc, difficulty, attempt, solved, puzzle, removed, positions, toRemove, ret>>

targetVars == <<tpc, tDifficulty, tRemoved, tToRemove, tBreak>>

solveVars == <<spc, sInput, sBoard, sRandomize, sDone, sCallback, sCount>>

boardVars == <<bpc, bPuzzle, bSolution, givens, grid, notes, shared, ops, lastCall>>

uiVars ==
  <<selected, notesMode, activeNumber, completedDigits, autoNotes,
    undoStack, redoStack, dealing, loadingGame, calls, deals, uiOps, lastUi,
    hPhase, hBefore, hAfter, generated>>

vars == <<genVars, targetVars, solveVars, boardVars, uiVars>>

GenIdle ==
  /\ gpc = "idle"
  /\ difficulty = Undefined
  /\ attempt = 0
  /\ solved = Null
  /\ puzzle = Null
  /\ removed = 0
  /\ positions = <<>>
  /\ toRemove = UndefinedValue
  /\ ret = Null

TargetIdle ==
  /\ tpc = "idle"
  /\ tDifficulty = Undefined
  /\ tRemoved = 0
  /\ tToRemove = UndefinedValue
  /\ tBreak = FALSE

SolveIdle ==
  /\ spc = "idle"
  /\ sInput = Null
  /\ sBoard = Null
  /\ sRandomize = FALSE
  /\ sDone = FALSE
  /\ sCallback = NoCallback
  /\ sCount = 0

UiIdle ==
  /\ selected = Null
  /\ notesMode = FALSE
  /\ activeNumber = 0
  /\ completedDigits = {}
  /\ autoNotes = TRUE
  /\ undoStack = <<>>
  /\ redoStack = <<>>
  /\ dealing = FALSE
  /\ loadingGame = FALSE
  /\ calls = <<>>
  /\ deals = <<>>
  /\ uiOps = 0
  /\ lastUi = "none"
  /\ hPhase = "none"
  /\ hBefore = Null
  /\ hAfter = Null
  /\ generated = {}

NoCall == [op |-> "none", row |-> 0, col |-> 0, value |-> 0]

BoardIdle ==
  /\ bpc = "idle"
  /\ bPuzzle = Null
  /\ bSolution = Null
  /\ givens = Null
  /\ grid = Null
  /\ notes = Null
  /\ shared = FALSE
  /\ ops = 0
  /\ lastCall = NoCall

(***************************************************************************)
(* generatePuzzle                                                          *)
(***************************************************************************)
GenInit ==
  /\ gpc = "attempt"
  /\ difficulty \in {defaultDifficulty(d) : d \in GenDifficultyInputs}
  /\ attempt = 0
  /\ solved = Null
  /\ puzzle = Null
  /\ removed = 0
  /\ positions = <<>>
  /\ toRemove = UndefinedValue
  /\ ret = Null

\* The for loop of generatePuzzle with its test the wrong way round.
GenerateSolvedNoLoop ==
  /\ gpc = "attempt"
  /\ gpc' = "failed"
  /\ UNCHANGED <<difficulty, attempt, solved, puzzle, removed, positions, toRemove, ret>>
  /\ UNCHANGED <<targetVars, solveVars, boardVars, uiVars>>

\* generator.js:11-14 and 30-40: the loop test, generateSolvedBoard, and the
\* set-up of carvePuzzle.
GenerateSolved ==
  /\ gpc = "attempt"
  /\ IF attempt >= MAX_GENERATION_ATTEMPTS
     THEN /\ gpc' = "failed"
          /\ UNCHANGED <<attempt, solved, puzzle, removed, positions, toRemove>>
     ELSE \E s \in generateSolvedBoard :
            IF s = Null
            THEN /\ attempt' = attempt + 1
                 /\ UNCHANGED <<gpc, solved, puzzle, removed, positions, toRemove>>
            ELSE /\ solved' = s
                 /\ toRemove' = toRemoveFor(difficulty)
                 /\ puzzle' = cloneBoard(s)
                 /\ removed' = 0
                 /\ positions' \in ShuffledPositions
                 /\ gpc' = "carve"
                 /\ UNCHANGED attempt
  /\ UNCHANGED <<difficulty, ret>>
  /\ UNCHANGED <<targetVars, solveVars, boardVars, uiVars>>

\* generator.js:41-53: one coordinate of the shuffled list.
CarveStep ==
  /\ gpc = "carve"
  /\ positions # <<>>
  /\ ~reachedTarget(removed, toRemove)
  /\ LET step == carveStep(puzzle, removed, Head(positions))
     IN /\ puzzle' = step.puzzle
        /\ removed' = step.removed
  /\ positions' = Tail(positions)
  /\ UNCHANGED <<gpc, difficulty, attempt, solved, toRemove, ret>>
  /\ UNCHANGED <<targetVars, solveVars, boardVars, uiVars>>

\* generator.js:42 and 54, then 15-19: carvePuzzle returns, the puzzle is
\* validated, and generatePuzzle returns or goes to the next attempt.
ValidateAndReturn ==
  /\ gpc = "carve"
  /\ positions = <<>> \/ reachedTarget(removed, toRemove)
  /\ LET validation == validatePuzzle(puzzle, solved)
     IN IF validation.valid
        THEN /\ ret' = [puzzle |-> puzzle, solution |-> validation.solution]
             /\ gpc' = "returned"
             /\ UNCHANGED attempt
        ELSE /\ attempt' = attempt + 1
             /\ gpc' = "attempt"
             /\ UNCHANGED ret
  /\ UNCHANGED <<difficulty, solved, puzzle, removed, positions, toRemove>>
  /\ UNCHANGED <<targetVars, solveVars, boardVars, uiVars>>

Init == GenInit /\ TargetIdle /\ SolveIdle /\ BoardIdle /\ UiIdle

Next == GenerateSolved \/ CarveStep \/ ValidateAndReturn

Spec == Init /\ [][Next]_vars

(***************************************************************************)
(* The removal target: generatePuzzle's default, line 37 and the test of   *)
(* line 42 of generator.js, on a difficulty and a value of removed.        *)
(***************************************************************************)
TargetInit ==
  /\ tpc = "call"
  /\ tDifficulty \in DifficultyInputs
  /\ tRemoved \in 0 .. MaxRemoved
  /\ tToRemove = UndefinedValue
  /\ tBreak = FALSE

ComputeTarget ==
  /\ tpc = "call"
  /\ tToRemove' = toRemoveFor(defaultDifficulty(tDifficulty))
  /\ tpc' = "target"
  /\ UNCHANGED <<tDifficulty, tRemoved, tBreak>>
  /\ UNCHANGED <<genVars, solveVars, boardVars, uiVars>>

TestTarget ==
  /\ tpc = "target"
  /\ tBreak' = reachedTarget(tRemoved, tToRemove)
  /\ tpc' = "tested"
  /\ UNCHANGED <<tDifficulty, tRemoved, tToRemove>>
  /\ UNCHANGED <<genVars, solveVars, boardVars, uiVars>>

InitTarget == GenIdle /\ TargetInit /\ SolveIdle /\ BoardIdle /\ UiIdle

NextTarget == ComputeTarget \/ TestTarget

SpecTarget == InitTarget /\ [][NextTarget]_vars

(***************************************************************************)
(* solveBoard called on a grid.                                            *)
(***************************************************************************)
SolveInit ==
  /\ spc = "call"
  /\ sInput \in SolveInputs
  /\ sBoard = sInput
  /\ sRandomize = FALSE
  /\ sDone = FALSE
  /\ sCallback = NoCallback
  /\ sCount = 0

\* solveBoard(board): randomize = false, no callback.
SolveInOrder ==
  /\ spc = "call"
  /\ LET res == solveBoard(sBoard, NoCallback, 0)
     IN /\ sBoard' = res.board
        /\ sDone' = res.done
  /\ sRandomize' = FALSE
  /\ spc' = "returned"
  /\ UNCHANGED <<sInput, sCallback, sCount>>
  /\ UNCHANGED <<genVars, targetVars, boardVars, uiVars>>

\* solveBoard(board, true): any order of the candidates at every cell.
SolveShuffled ==
  /\ spc = "call"
  /\ \E res \in solveBoardRandom(sBoard) :
       /\ sBoard' = res.board
       /\ sDone' = res.done
  /\ sRandomize' = TRUE
  /\ spc' = "returned"
  /\ UNCHANGED <<sInput, sCallback, sCount>>
  /\ UNCHANGED <<genVars, targetVars, boardVars, uiVars>>

\* solveBoard(board, false, onSolution): the search with a callback, as
\* countSolutions runs it.
SolveEnumerate ==
  /\ spc = "call"
  /\ \E cb \in Callbacks :
       LET res == solveBoard(sBoard, cb, 0)
       IN /\ sBoard' = res.board
          /\ sDone' = res.done
          /\ sCount' = res.count
          /\ sCallback' = cb
  /\ sRandomize' = FALSE
  /\ spc' = "enumerated"
  /\ UNCHANGED sInput
  /\ UNCHANGED <<genVars, targetVars, boardVars, uiVars>>

InitSolve == GenIdle /\ TargetIdle /\ SolveInit /\ BoardIdle /\ UiIdle

NextSolve == SolveInOrder \/ SolveShuffled \/ SolveEnumerate

SpecSolve == InitSolve /\ [][NextSolve]_vars

(***************************************************************************)
(* A SudokuBoard: the constructor, restoreGameState of the renderer (the   *)
(* one place that assigns board.grid from outside), and the methods.       *)
(***************************************************************************)
BoardInit ==
  /\ bpc = "play"
  /\ \E pair \in BoardPairs :
       /\ bPuzzle = pair.puzzle
       /\ grid = pair.puzzle
       /\ bSolution = pair.solution
       /\ givens = givensOf(pair.puzzle)
  /\ notes = NoNotes
  /\ shared = FALSE
  /\ ops = 0
  /\ lastCall = [op |-> "constructor", row |-> 0, col |-> 0, value |-> 0]

\* What every call of a method does besides its effect on grid and notes:
\* no method assigns this.puzzle, this.solution or this.givens, and a write
\* to this.grid reaches this.puzzle only through a shared row.
Called(op, row, col, value) ==
  /\ ops' = ops + 1
  /\ lastCall' = [op |-> op, row |-> row, col |-> col, value |-> value]
  /\ bPuzzle' = IF shared THEN grid' ELSE bPuzzle
  /\ UNCHANGED <<bpc, bSolution, givens>>
  /\ UNCHANGED <<genVars, targetVars, solveVars, uiVars>>

\* renderer.js:466-472: the board of a saved game gets the saved grid.
RestoreGameState ==
  /\ bpc = "play"
  /\ lastCall.op = "constructor"
  /\ \E saved \in SavedGrids([puzzle |-> bPuzzle, solution |-> bSolution]) :
       grid' = saved
  /\ notes' = NoNotes
  /\ shared' = FALSE
  /\ lastCall' = [op |-> "restoreGameState", row |-> 0, col |-> 0, value |-> 0]
  /\ UNCHANGED <<bpc, bPuzzle, bSolution, givens, ops>>
  /\ UNCHANGED <<genVars, targetVars, solveVars, uiVars>>

SetValue ==
  /\ bpc = "play"
  /\ ops < MaxOps
  /\ \E a \in PlayCells, v \in Digits :
       /\ LET b == setValue(grid, notes, a[1], a[2], v)
          IN grid' = b.grid /\ notes' = b.notes
       /\ UNCHANGED shared
       /\ Called("setValue", a[1], a[2], v)

ClearValue ==
  /\ bpc = "play"
  /\ ops < MaxOps
  /\ \E a \in PlayCells :
       /\ LET b == clearValue(grid, notes, a[1], a[2])
          IN grid' = b.grid /\ notes' = b.notes
       /\ UNCHANGED shared
       /\ Called("clearValue", a[1], a[2], 0)

ToggleNote ==
  /\ bpc = "play"
  /\ ops < MaxOps
  /\ \E a \in PlayCells, v \in Digits :
       /\ LET b == toggleNote(grid, notes, a[1], a[2], v)
          IN grid' = b.grid /\ notes' = b.notes
       /\ UNCHANGED shared
       /\ Called("toggleNote", a[1], a[2], v)

ClearNotes ==
  /\ bpc = "play"
  /\ ops < MaxOps
  /\ \E a \in PlayCells :
       /\ LET b == clearNotes(grid, notes, a[1], a[2])
          IN grid' = b.grid /\ notes' = b.notes
       /\ UNCHANGED shared
       /\ Called("clearNotes", a[1], a[2], 0)

ClearNotesInPeers ==
  /\ bpc = "play"
  /\ ops < MaxOps
  /\ \E a \in PlayCells, v \in Digits :
       /\ LET b == clearNotesInPeers(grid, notes, a[1], a[2], v)
          IN grid' = b.grid /\ notes' = b.notes
       /\ UNCHANGED shared
       /\ Called("clearNotesInPeers", a[1], a[2], v)

\* resetToPuzzle renewing the notes only.
ResetNotesOnly ==
  /\ bpc = "play"
  /\ ops < MaxOps
  /\ grid' = grid /\ notes' = NoNotes /\ shared' = shared
  /\ Called("resetToPuzzle", 0, 0, 0)

ResetToPuzzle ==
  /\ bpc = "play"
  /\ ops < MaxOps
  /\ LET b == resetToPuzzle(bPuzzle)
     IN grid' = b.grid /\ notes' = b.notes /\ shared' = b.shared
  /\ Called("resetToPuzzle", 0, 0, 0)

\* The methods that only read: computeConflicts, isSolved and findHint.
\* What the first two return is a function of the grid (the operators of
\* their names); what findHint returned is kept in lastCall, with value 0
\* for null (a hint's value is a candidate, never 0).
ComputeConflicts ==
  /\ bpc = "play"
  /\ ops < MaxOps
  /\ UNCHANGED <<grid, notes, shared>>
  /\ Called("computeConflicts", 0, 0, 0)

IsSolved ==
  /\ bpc = "play"
  /\ ops < MaxOps
  /\ UNCHANGED <<grid, notes, shared>>
  /\ Called("isSolved", 0, 0, 0)

FindHint ==
  /\ bpc = "play"
  /\ ops < MaxOps
  /\ UNCHANGED <<grid, notes, shared>>
  /\ LET hint == findHint(grid)
     IN IF hint = Null
        THEN Called("findHint", 0, 0, 0)
        ELSE Called("findHint", hint.row, hint.col, hint.value)

InitBoard == GenIdle /\ TargetIdle /\ SolveIdle /\ BoardInit /\ UiIdle

NextBoard ==
  \/ RestoreGameState
  \/ SetValue
  \/ ClearValue
  \/ ToggleNote
  \/ ClearNotes
  \/ ClearNotesInPeers
  \/ ResetToPuzzle
  \/ ComputeConflicts
  \/ IsSolved
  \/ FindHint

SpecBoard == InitBoard /\ [][NextBoard]_vars

(***************************************************************************)
(* The game screen: newGame, the deal animation and the player's handlers. *)
(* A newGame invocation is at "wait30" after its guard, at "waitMinimum"   *)
(* after its try block, at "wait350" after setLoadingGame(false), and      *)
(* "done" after its call of runDealAnimation.  A handler that returns at   *)
(* its first test (dealing, or the guard of newGame) changes nothing and   *)
(* is no step.                                                             *)
(***************************************************************************)
\* The invocations of newGame, the cells and digits the handlers are
\* explored with, and the number of handlers run.
MaxNewGames == 2

NumUiCells == 2

UiCells == {a \in Cells : a[1] * N + a[2] < NumUiCells}

NumUiDigits == 2

UiDigits == 1 .. NumUiDigits

MaxUiOps == 3

\* The results of generatePuzzle the games are explored with: the pairs of
\* BoardPairs whose solution begins with one of the first NumUiPairs
\* digits.
NumUiPairs == 2

UiPairs == {p \in BoardPairs : p.solution[0][0] <= NumUiPairs}

\* The state the handlers work on, and its assignment.
Ui ==
  [grid |-> grid, notes |-> notes, selected |-> selected, notesMode |-> notesMode,
   activeNumber |-> activeNumber, completedDigits |-> completedDigits,
   undoStack |-> undoStack, redoStack |-> redoStack]

SetUi(u) ==
  /\ grid' = u.grid
  /\ notes' = u.notes
  /\ selected' = u.selected
  /\ notesMode' = u.notesMode
  /\ activeNumber' = u.activeNumber
  /\ completedDigits' = u.completedDigits
  /\ undoStack' = u.undoStack
  /\ redoStack' = u.redoStack

UiInit ==
  /\ selected = Null
  /\ notesMode = FALSE
  /\ activeNumber = 0
  /\ completedDigits = {}
  /\ autoNotes = TRUE
  /\ undoStack = <<>>
  /\ redoStack = <<>>
  /\ dealing = FALSE
  /\ loadingGame = FALSE
  /\ calls = <<>>
  /\ deals = <<>>
  /\ uiOps = 0
  /\ lastUi = "none"
  /\ hPhase = "none"
  /\ hBefore = Null
  /\ hAfter = Null
  /\ generated = UiPairs

\* A handler of a click or a key that went to a given cell of the board.
ToGiven(op, u) ==
  /\ op \in {"handleCellClick", "keyDigit", "keyClear"}
  /\ bpc = "play"
  /\ u.selected # Null
  /\ givens[u.selected[1]][u.selected[2]]

\* What a handler of the player leaves besides the state it works on: the
\* board's other fields are not assigned, and the record of the last action
\* that pushed an undo snapshot (the grid and notes before and after it) is
\* renewed when the handler pushed one.
Handled(op, u) ==
  /\ SetUi(u)
  /\ uiOps' = uiOps + 1
  /\ lastUi' = IF ToGiven(op, u) THEN op ELSE "none"
  /\ IF Len(u.undoStack) > Len(undoStack)
     THEN /\ hPhase' = "acted"
          /\ hBefore' = [grid |-> grid, notes |-> notes]
          /\ hAfter' = [grid |-> u.grid, notes |-> u.notes]
     ELSE UNCHANGED <<hPhase, hBefore, hAfter>>
  /\ UNCHANGED <<bpc, bPuzzle, bSolution, givens, shared, ops, lastCall>>
  /\ UNCHANGED <<generated, autoNotes, dealing, loadingGame, calls, deals>>
  /\ UNCHANGED <<genVars, targetVars, solveVars>>

\* runDealAnimation(puz, ...) called for the invocation by of newGame (0 for
\* restartPuzzle): with no given it refreshes and returns; otherwise dealing
\* is set and the animation runs until DealFinish.
RunDealAnimation(u, puz, by) ==
  IF dealtGivens(puz) = {}
  THEN /\ \E u1 \in {refreshGrid(u, bSolution)} : SetUi(u1)
       /\ UNCHANGED <<dealing, deals>>
  ELSE /\ \E u1 \in {refreshGrid(u, bSolution)} : SetUi(u1)
       /\ dealing' = TRUE
       /\ deals' = Append(deals, [puzzle |-> puz, by |-> by])

\* init and loadPreferences: restoreGameState on the game saveState stored
\* when it was dealt (line 707), with the notes mode stored since.  The
\* settings are the default ones.
LoadSavedGame ==
  /\ bpc = "idle"
  /\ calls = <<>>
  /\ uiOps = 0
  /\ \E on \in BOOLEAN, pair \in generated :
       /\ \E u \in {restoreGameState(Ui, [puzzle |-> pair.puzzle,
                                          solution |-> pair.solution,
                                          grid |-> pair.puzzle,
                                          notes |-> NoNotes,
                                          notesMode |-> on])} : SetUi(u)
       /\ bPuzzle' = cloneBoard(pair.puzzle)
       /\ bSolution' = cloneBoard(pair.solution)
       /\ givens' = givensOf(pair.puzzle)
  /\ bpc' = "play"
  /\ shared' = FALSE
  /\ lastUi' = "none"
  /\ UNCHANGED <<generated, hPhase, hBefore, hAfter, ops, lastCall, autoNotes, dealing,
                 loadingGame, calls, deals, uiOps>>
  /\ UNCHANGED <<genVars, targetVars, solveVars>>

\* newGame, lines 678-681: the guard, setLoadingGame(true) and the first
\* await.
NewGameCall ==
  /\ Len(calls) < MaxNewGames
  /\ ~(dealing \/ loadingGame)
  /\ loadingGame' = TRUE
  /\ calls' = Append(calls, [pc |-> "wait30", nextPuzzle |-> Null])
  /\ lastUi' = "none"
  /\ UNCHANGED <<generated, selected, notesMode, activeNumber, completedDigits, autoNotes,
                 undoStack, redoStack, dealing, deals, uiOps, hPhase, hBefore, hAfter>>
  /\ UNCHANGED <<genVars, targetVars, solveVars, boardVars>>

\* newGame, lines 682-711: generatePuzzle, the new board, and the wait for
\* the rest of the 2000 ms; when generation took that long, lines 715-719
\* follow without a wait.
NewGameGenerate ==
  \E i \in DOMAIN calls, pair \in generated, slow \in BOOLEAN :
    /\ calls[i].pc = "wait30"
    /\ bpc' = "play"
    /\ bPuzzle' = cloneBoard(pair.puzzle)
    /\ bSolution' = cloneBoard(pair.solution)
    /\ givens' = givensOf(pair.puzzle)
    /\ shared' = FALSE
    /\ \E u \in {startBoard(Ui, pair)} : SetUi(u)
    /\ calls' = [calls EXCEPT ![i] = [pc |-> IF slow THEN "wait350" ELSE "waitMinimum",
                                      nextPuzzle |-> pair.puzzle]]
    /\ loadingGame' = IF slow THEN FALSE ELSE loadingGame
    /\ lastUi' = "none"
    /\ hPhase' = "none"
    /\ UNCHANGED <<generated, hBefore, hAfter, ops, lastCall, autoNotes, dealing, deals, uiOps>>
    /\ UNCHANGED <<genVars, targetVars, solveVars>>

\* newGame, lines 716-719: setLoadingGame(false) and the wait of 350 ms.
NewGameLoaded ==
  \E i \in DOMAIN calls :
    /\ calls[i].pc = "waitMinimum"
    /\ loadingGame' = FALSE
    /\ calls' = [calls EXCEPT ![i].pc = "wait350"]
    /\ lastUi' = "none"
    /\ UNCHANGED <<generated, selected, notesMode, activeNumber, completedDigits, autoNotes,
                   undoStack, redoStack, dealing, deals, uiOps, hPhase, hBefore, hAfter>>
    /\ UNCHANGED <<genVars, targetVars, solveVars, boardVars>>

\* newGame, lines 720-728: the deal of the puzzle this invocation generated.
NewGameDeal ==
  \E i \in DOMAIN calls :
    /\ calls[i].pc = "wait350"
    /\ \E u \in {Ui} : RunDealAnimation(u, calls[i].nextPuzzle, i)
    /\ calls' = [calls EXCEPT ![i].pc = "done"]
    /\ lastUi' = "none"
    /\ UNCHANGED <<generated, autoNotes, loadingGame, uiOps, hPhase, hBefore, hAfter>>
    /\ UNCHANGED <<genVars, targetVars, solveVars>>
    /\ UNCHANGED <<bpc, bPuzzle, bSolution, givens, shared, ops, lastCall>>

\* The last timeout of a deal animation (lines 1106-1112; lines 1072-1078
\* with reduced motion).  It fires 55 ms times the number of givens after
\* the start; the puzzles of UiPairs have the same number of givens, so the
\* animations finish in the order they started.
DealFinish ==
  /\ deals # <<>>
  /\ deals' = Tail(deals)
  /\ dealing' = FALSE
  /\ \E u \in {refreshGrid(Ui, bSolution)} : SetUi(u)
  /\ lastUi' = "none"
  /\ UNCHANGED <<generated, autoNotes, loadingGame, calls, uiOps, hPhase, hBefore, hAfter>>
  /\ UNCHANGED <<genVars, targetVars, solveVars>>
  /\ UNCHANGED <<bpc, bPuzzle, bSolution, givens, shared, ops, lastCall>>

HandleCellClick ==
  /\ uiOps < MaxUiOps
  /\ ~dealing
  /\ \E a \in UiCells :
       \E u \in {handleCellClick(Ui, givens, bSolution, autoNotes, a[1], a[2])} :
         Handled("handleCellClick", u)

SelectNumber ==
  /\ uiOps < MaxUiOps
  /\ ~dealing
  /\ \E v \in UiDigits :
       \E u \in {selectNumber(Ui, v, bSolution)} : Handled("selectNumber", u)

\* The change of the notes toggle.
NotesToggle ==
  /\ uiOps < MaxUiOps
  /\ \E u \in {setNotesMode(Ui, ~notesMode, bSolution)} : Handled("notesToggle", u)

\* handleKeyDown with a digit key.
KeyDigit ==
  /\ uiOps < MaxUiOps
  /\ ~dealing
  /\ bpc = "play"
  /\ \E v \in UiDigits :
       \E u \in {rendererSetValue(keySelection(Ui), givens, bSolution, autoNotes, v)} :
         Handled("keyDigit", u)

\* handleKeyDown with Backspace, Delete or 0.
KeyClear ==
  /\ uiOps < MaxUiOps
  /\ ~dealing
  /\ bpc = "play"
  /\ \E u \in {clearSelectedCell(keySelection(Ui), givens, bSolution)} :
       Handled("keyClear", u)

UndoMove ==
  /\ uiOps < MaxUiOps
  /\ \E u \in {undoMove(Ui, bSolution)} : SetUi(u)
  /\ uiOps' = uiOps + 1
  /\ lastUi' = "none"
  /\ hPhase' = IF hPhase = "acted" THEN "undone" ELSE "none"
  /\ UNCHANGED <<hBefore, hAfter>>
  /\ UNCHANGED <<bpc, bPuzzle, bSolution, givens, shared, ops, lastCall>>
  /\ UNCHANGED <<generated, autoNotes, dealing, loadingGame, calls, deals>>
  /\ UNCHANGED <<genVars, targetVars, solveVars>>

RedoMove ==
  /\ uiOps < MaxUiOps
  /\ \E u \in {redoMove(Ui, bSolution)} : SetUi(u)
  /\ uiOps' = uiOps + 1
  /\ lastUi' = "none"
  /\ hPhase' = IF hPhase = "undone" THEN "redone" ELSE "none"
  /\ UNCHANGED <<hBefore, hAfter>>
  /\ UNCHANGED <<bpc, bPuzzle, bSolution, givens, shared, ops, lastCall>>
  /\ UNCHANGED <<generated, autoNotes, dealing, loadingGame, calls, deals>>
  /\ UNCHANGED <<genVars, targetVars, solveVars>>

RestartPuzzle ==
  /\ uiOps < MaxUiOps
  /\ bpc = "play"
  /\ \E u \in {restartPuzzle(Ui, bPuzzle, bSolution)} : RunDealAnimation(u, bPuzzle, 0)
  /\ uiOps' = uiOps + 1
  /\ lastUi' = "none"
  /\ hPhase' = "none"
  /\ UNCHANGED <<hBefore, hAfter>>
  /\ UNCHANGED <<bpc, bPuzzle, bSolution, givens, shared, ops, lastCall>>
  /\ UNCHANGED <<generated, autoNotes, loadingGame, calls>>
  /\ UNCHANGED <<genVars, targetVars, solveVars>>

ClearBoardChanges ==
  /\ uiOps < MaxUiOps
  /\ bpc = "play"
  /\ \E u \in {clearBoardChanges(Ui, bPuzzle, bSolution)} : SetUi(u)
  /\ uiOps' = uiOps + 1
  /\ lastUi' = "none"
  /\ hPhase' = "none"
  /\ UNCHANGED <<hBefore, hAfter>>
  /\ UNCHANGED <<bpc, bPuzzle, bSolution, givens, shared, ops, lastCall>>
  /\ UNCHANGED <<generated, autoNotes, dealing, loadingGame, calls, deals>>
  /\ UNCHANGED <<genVars, targetVars, solveVars>>

InitUi == GenIdle /\ TargetIdle /\ SolveIdle /\ BoardIdle /\ UiInit

NextUi ==
  \/ LoadSavedGame
  \/ NewGameCall
  \/ NewGameGenerate
  \/ NewGameLoaded
  \/ NewGameDeal
  \/ DealFinish
  \/ HandleCellClick
  \/ SelectNumber
  \/ NotesToggle
  \/ KeyDigit
  \/ KeyClear
  \/ UndoMove
  \/ RedoMove
  \/ RestartPuzzle
  \/ ClearBoardChanges

SpecUi == InitUi /\ [][NextUi]_vars

(***************************************************************************)
(* Properties of generatePuzzle (specification Spec).                      *)
(***************************************************************************)

\* C1: the puzzle of every returned pair has exactly one valid completion,
\* and that completion is the returned solution, cell for cell.
C1_UniqueCompletionIsSolution ==
  gpc = "returned" => Completions(ret.puzzle) = {ret.solution}

C1_Witness ==
  /\ gpc = "returned"
  /\ Cardinality(Blanks(ret.puzzle)) >= N
  /\ Completions(ret.puzzle) = {ret.solution}

\* C2: the solution of every returned pair has no zero, and no digit twice
\* in a row, a column or a box (so each holds every digit of 1 .. N once).
C2_SolutionCompleteValid ==
  gpc = "returned" => ValidComplete(ret.solution)

C2_Witness ==
  /\ gpc = "returned"
  /\ ValidComplete(ret.solution)
  /\ ret.solution # ret.puzzle

\* C3: every given of a returned puzzle equals the solution at that cell;
\* and while carving, every cell of the puzzle is either zero or still the
\* digit of the solved grid: carving zeroes cells, it never changes a digit.
C3_GivensPreserved ==
  /\ gpc = "returned" =>
       \A a \in Cells : ret.puzzle[a[1]][a[2]] # 0 =>
                          ret.solution[a[1]][a[2]] = ret.puzzle[a[1]][a[2]]
  /\ gpc = "carve" =>
       \A a \in Cells : puzzle[a[1]][a[2]] \in {0, solved[a[1]][a[2]]}

C3_Witness ==
  /\ gpc = "returned"
  /\ \E a, b \in Cells : /\ ret.puzzle[a[1]][a[2]] # 0
                         /\ ret.solution[a[1]][a[2]] = ret.puzzle[a[1]][a[2]]
                         /\ ret.puzzle[b[1]][b[2]] = 0

\* C4: at most 8 attempts are made; a pair is returned only from an attempt
\* whose puzzle validatePuzzle accepts; the failure is signalled only after
\* 8 failed attempts, and nothing is returned then.
C4_BoundedAttempts ==
  /\ attempt \in 0 .. 8
  /\ gpc = "returned" =>
       /\ attempt < 8
       /\ ret.puzzle = puzzle
       /\ validatePuzzle(ret.puzzle, solved).valid
       /\ ret.solution = validatePuzzle(ret.puzzle, solved).solution
  /\ gpc = "failed" => (attempt = 8 /\ ret = Null)
  /\ attempt = 8 => gpc \in {"attempt", "failed"}

C4_Witness ==
  /\ gpc = "returned"
  /\ attempt = 0
  /\ validatePuzzle(ret.puzzle, solved).valid

\* C5: the removal target is 45 for easy, 55 for medium, 62 for hard, 70 for
\* expert, and 55 for every other difficulty.
ClaimedTarget(d) ==
  CASE d = "easy" -> 45
    [] d = "hard" -> 62
    [] d = "expert" -> 70
    [] OTHER -> 55

C5_TargetOfDifficulty ==
  tpc # "call" => tToRemove = Num(scaled(ClaimedTarget(tDifficulty)))

(***************************************************************************)
(* Properties of solveBoard (specification SpecSolve).                     *)
(***************************************************************************)

\* C6: on a complete valid grid, solveBoard with randomize = false and no
\* callback returns true and leaves every cell as it was.
C6_SolvedGridUnchanged ==
  (spc = "returned" /\ ~sRandomize /\ ValidComplete(sInput)) =>
    (sDone /\ sBoard = sInput)

C6_Witness ==
  /\ spc = "returned"
  /\ ~sRandomize
  /\ ValidComplete(sInput)
  /\ sDone
  /\ sBoard = sInput

\* C7 as claimed: on every grid that has no valid completion, solveBoard
\* without a callback returns false.
C7_UnsatReturnsFalse ==
  (spc = "returned" /\ Completions(sInput) = {}) => ~sDone

\* C7 as amended: on every grid whose pre-filled cells do not conflict with
\* each other and that has no valid completion, solveBoard without a
\* callback returns false, whatever the order of the candidates.
C7_ConsistentUnsatReturnsFalse ==
  (spc = "returned" /\ NoGivenConflict(sInput) /\ Completions(sInput) = {}) => ~sDone

C7_Witness ==
  /\ spc = "returned"
  /\ NoGivenConflict(sInput)
  /\ Blanks(sInput) # {}
  /\ Completions(sInput) = {}
  /\ ~sDone

(***************************************************************************)
(* Properties of SudokuBoard (specification SpecBoard).                    *)
(***************************************************************************)

\* C8: setValue and clearValue on a given cell leave the live grid and all
\* notes unchanged.
C8_GivenWriteIsNoOp ==
  [][(/\ lastCall' # lastCall \/ ops' # ops
      /\ lastCall'.op \in {"setValue", "clearValue"}
      /\ givens[lastCall'.row][lastCall'.col])
     => (grid' = grid /\ notes' = notes)]_vars

\* C9: isSolved() is true if and only if every cell of the live grid equals
\* the solution's cell, and false whenever a cell is empty or differs.
C9_SolvedIffEqualsSolution ==
  bpc = "play" =>
    /\ isSolved(grid, bSolution) <=>
         (\A a \in Cells : grid[a[1]][a[2]] = bSolution[a[1]][a[2]])
    /\ (\E a \in Cells : grid[a[1]][a[2]] = 0 \/ grid[a[1]][a[2]] # bSolution[a[1]][a[2]])
         => ~isSolved(grid, bSolution)

C9_Witness ==
  /\ bpc = "play"
  /\ lastCall.op = "setValue"
  /\ isSolved(grid, bSolution)
  /\ grid = bSolution

\* C10: computeConflicts() is exactly the set of the cells whose non-zero
\* value another cell of the same row, column or box also holds; of two
\* cells in conflict both are reported.
ConflictingCells(g) ==
  {a \in Cells : /\ g[a[1]][a[2]] # 0
                 /\ \E b \in Cells : b # a /\ SameUnit(a, b) /\ g[b[1]][b[2]] = g[a[1]][a[2]]}

C10_ConflictsExact ==
  bpc = "play" =>
    /\ computeConflicts(grid) = ConflictingCells(grid)
    /\ \A a, b \in Cells :
         (a # b /\ SameUnit(a, b) /\ grid[a[1]][a[2]] # 0 /\ grid[a[1]][a[2]] = grid[b[1]][b[2]])
           => (a \in computeConflicts(grid) /\ b \in computeConflicts(grid))

C10_Witness ==
  /\ bpc = "play"
  /\ \E r \in Idx : \E c, d \in Idx :
       /\ c # d
       /\ grid[r][c] # 0
       /\ grid[r][c] = grid[r][d]
       /\ <<r, c>> \in computeConflicts(grid)
       /\ <<r, d>> \in computeConflicts(grid)

(***************************************************************************)
(* Further properties of SudokuBoard (specification SpecBoard).            *)
(***************************************************************************)

\* The cells that share a row, a column or a box with a, a excepted; the
\* digits none of them holds in g; and the empty cells with one such digit.
Peers(a) == {b \in Cells : b # a /\ SameUnit(a, b)}

FreeDigits(g, a) == {v \in Digits : \A b \in Peers(a) : g[b[1]][b[2]] # v}

NakedSingles(g) ==
  {a \in Cells : g[a[1]][a[2]] = 0 /\ Cardinality(FreeDigits(g, a)) = 1}

\* C11: findHint() returns the first cell in row-major order that is empty
\* and has exactly one available candidate, with that candidate; it returns
\* none if and only if no empty cell has exactly one candidate; and on a grid
\* whose single empty cell has peers holding all digits but one, it returns
\* that cell and the missing digit.
C11_FindHintFirstNakedSingle ==
  bpc = "play" =>
    LET hint == findHint(grid)
    IN /\ (hint = Null) <=> (NakedSingles(grid) = {})
       /\ hint # Null =>
            /\ <<hint.row, hint.col>> \in NakedSingles(grid)
            /\ \A b \in NakedSingles(grid) : hint.row * N + hint.col <= b[1] * N + b[2]
            /\ FreeDigits(grid, <<hint.row, hint.col>>) = {hint.value}
       /\ \A a \in Cells :
            (Blanks(grid) = {a} /\ Cardinality({grid[b[1]][b[2]] : b \in Peers(a)}) = N - 1)
              => /\ hint # Null
                 /\ <<hint.row, hint.col>> = a
                 /\ hint.value \in Digits \ {grid[b[1]][b[2]] : b \in Peers(a)}
       /\ lastCall.op = "findHint" =>
            lastCall.value = (IF hint = Null THEN 0 ELSE hint.value)

C11_Witness ==
  /\ bpc = "play"
  /\ lastCall.op = "findHint"
  /\ lastCall.value # 0
  /\ Blanks(grid) = {<<lastCall.row, lastCall.col>>}
  /\ Cardinality({grid[b[1]][b[2]] : b \in Peers(<<lastCall.row, lastCall.col>>)}) = N - 1

\* C12: after any sequence of calls on a board built from a generated pair,
\* resetToPuzzle() leaves a grid on which computeConflicts() is empty.
C12_ResetLeavesNoConflict ==
  (bpc = "play" /\ lastCall.op = "resetToPuzzle") => computeConflicts(grid) = {}

C12_Witness ==
  /\ bpc = "play"
  /\ lastCall.op = "resetToPuzzle"
  /\ ops = MaxOps
  /\ Blanks(grid) # {}
  /\ computeConflicts(grid) = {}

\* C13: after any sequence of calls, resetToPuzzle() leaves the live grid
\* equal to the original puzzle, cell for cell, and every note set empty;
\* a second resetToPuzzle() changes nothing.
C13_ResetRestoresPuzzle ==
  (bpc = "play" /\ lastCall.op = "resetToPuzzle") =>
    /\ \E pair \in BoardPairs : pair.solution = bSolution /\ grid = pair.puzzle
    /\ \A a \in Cells : notes[a[1]][a[2]] = {}
    /\ resetToPuzzle(bPuzzle).grid = grid
    /\ resetToPuzzle(bPuzzle).notes = notes

C13_Witness ==
  /\ bpc = "play"
  /\ lastCall.op = "resetToPuzzle"
  /\ ops = MaxOps
  /\ \E pair \in BoardPairs : pair.solution = bSolution /\ grid = pair.puzzle
  /\ notes = NoNotes

\* C14: in every state reached from a new board by calls of the methods,
\* every cell whose live value is not zero has an empty note set.
C14_ValueExcludesNotes ==
  bpc = "play" =>
    \A a \in Cells : grid[a[1]][a[2]] # 0 => notes[a[1]][a[2]] = {}

C14_Witness ==
  /\ bpc = "play"
  /\ \E a, b \in Cells :
       /\ grid[a[1]][a[2]] # 0
       /\ ~givens[a[1]][a[2]]
       /\ notes[a[1]][a[2]] = {}
       /\ notes[b[1]][b[2]] # {}

\* C15: toggleNote(r,c,v) on an empty cell flips whether v is in the cell's
\* note set and changes nothing else, so that a second toggleNote(r,c,v)
\* gives back the state before the first; on a cell whose live value is not
\* zero it changes nothing.
C15_ToggleNoteFlips ==
  [][(lastCall'.op = "toggleNote" /\ ops' = ops + 1) =>
       LET r == lastCall'.row
           c == lastCall'.col
           v == lastCall'.value
       IN /\ grid' = grid
          /\ IF grid[r][c] = 0
             THEN /\ (v \in notes'[r][c]) <=> (v \notin notes[r][c])
                  /\ notes'[r][c] \ {v} = notes[r][c] \ {v}
                  /\ \A a \in Cells : a # <<r, c>> => notes'[a[1]][a[2]] = notes[a[1]][a[2]]
                  /\ toggleNote(grid', notes', r, c, v).notes = notes
                  /\ toggleNote(grid', notes', r, c, v).grid = grid
             ELSE notes' = notes]_vars

C15_Witness ==
  /\ bpc = "play"
  /\ lastCall.op = "toggleNote"
  /\ grid[lastCall.row][lastCall.col] = 0
  /\ lastCall.value \in notes[lastCall.row][lastCall.col]

\* C16: clearNotesInPeers(r,c,v), for a digit v, removes v from the notes of
\* every empty cell other than (r,c) in its row, column or box, and leaves
\* unchanged the live grid, the notes of (r,c), the notes of the cells that
\* are no peers, and every note digit other than v.
C16_ClearNotesInPeersFrame ==
  [][(lastCall'.op = "clearNotesInPeers" /\ ops' = ops + 1 /\ lastCall'.value \in Digits) =>
       LET a == <<lastCall'.row, lastCall'.col>>
           v == lastCall'.value
       IN /\ grid' = grid
          /\ \A b \in Peers(a) :
               grid[b[1]][b[2]] = 0 => notes'[b[1]][b[2]] = notes[b[1]][b[2]] \ {v}
          /\ notes'[a[1]][a[2]] = notes[a[1]][a[2]]
          /\ \A b \in Cells \ (Peers(a) \cup {a}) : notes'[b[1]][b[2]] = notes[b[1]][b[2]]
          /\ \A b \in Cells : notes'[b[1]][b[2]] \ {v} = notes[b[1]][b[2]] \ {v}]_vars

C16_Witness ==
  /\ bpc = "play"
  /\ lastCall.op = "clearNotesInPeers"
  /\ lastCall.value \in Digits
  /\ \E b \in Peers(<<lastCall.row, lastCall.col>>) :
       /\ grid[b[1]][b[2]] = 0
       /\ notes[b[1]][b[2]] # {}
       /\ lastCall.value \notin notes[b[1]][b[2]]

\* C17: for every empty cell, availableCandidates(r,c) is the ascending list
\* of the digits that no cell of its row, column or box holds, which are the
\* digits isValidPlacement(r,c,v) accepts; for a filled cell it is empty.
C17_CandidatesAreFreeDigits ==
  bpc = "play" =>
    \A a \in Cells :
      LET cand == availableCandidates(grid, a[1], a[2])
      IN IF grid[a[1]][a[2]] = 0
         THEN /\ {cand[i] : i \in DOMAIN cand} = FreeDigits(grid, a)
              /\ \A i, j \in DOMAIN cand : i < j => cand[i] < cand[j]
              /\ FreeDigits(grid, a) = {v \in Digits : isValidPlacement(grid, a[1], a[2], v)}
         ELSE cand = <<>>

C17_Witness ==
  /\ bpc = "play"
  /\ lastCall.op = "setValue"
  /\ \E a \in Cells :
       /\ grid[a[1]][a[2]] = 0
       /\ Len(availableCandidates(grid, a[1], a[2])) >= 2
       /\ \E v \in Digits :
            /\ v \notin FreeDigits(grid, a)
            /\ \A b \in Peers(a) : grid[b[1]][b[2]] = v => (b[1] # a[1] /\ b[2] # a[2])

\* C18: no sequence of calls of the methods changes the board's puzzle, its
\* solution or its givens mask: isGiven(r,c) stays what the original puzzle
\* makes it.
C18_PuzzleSolutionGivensFixed ==
  [][bpc = "play" =>
       /\ bPuzzle' = bPuzzle
       /\ bSolution' = bSolution
       /\ givens' = givens
       /\ givens' = givensOf(bPuzzle')]_vars

C18_Witness ==
  /\ bpc = "play"
  /\ ops = MaxOps
  /\ lastCall.op \in {"setValue", "clearValue"}
  /\ givens[lastCall.row][lastCall.col]
  /\ grid[lastCall.row][lastCall.col] # bPuzzle[lastCall.row][lastCall.col]
  /\ givens = givensOf(bPuzzle)

(***************************************************************************)
(* Properties of carvePuzzle (specification Spec).                         *)
(***************************************************************************)

\* The coordinates the loop of carvePuzzle has been through: those no longer
\* in the rest of the shuffled list.
Tried == (0 .. (N * N - 1)) \ {positions[i] : i \in DOMAIN positions}

\* C19: each coordinate is tried at most once; the cell tried stays zero if
\* and only if the puzzle with it zeroed has exactly one completion, and
\* otherwise has its digit back before the next coordinate; a cell once
\* removed is never restored in the attempt; and after every step the
\* puzzle has one completion, the solved grid it is carved from.
C19_CarvingKeepsUniqueness ==
  [][(gpc = "carve" /\ gpc' = "carve" /\ positions' # positions) =>
       LET pos == Head(positions)
           r == pos \div N
           c == pos % N
           zeroed == [puzzle EXCEPT ![r][c] = 0]
       IN /\ pos \notin Tried
          /\ \A i \in DOMAIN positions' : positions'[i] # pos
          /\ puzzle[r][c] = solved[r][c]
          /\ (puzzle'[r][c] = 0) <=> (Cardinality(Completions(zeroed)) = 1)
          /\ (puzzle'[r][c] = 0) <=> (countSolutions(zeroed) = 1)
          /\ puzzle'[r][c] # 0 => puzzle'[r][c] = puzzle[r][c]
          /\ \A a \in Cells : a # <<r, c>> => puzzle'[a[1]][a[2]] = puzzle[a[1]][a[2]]
          /\ \A a \in Cells : puzzle[a[1]][a[2]] = 0 => puzzle'[a[1]][a[2]] = 0
          /\ Completions(puzzle') = {solved'}]_vars

C19_Witness ==
  /\ gpc = "carve"
  /\ \E k \in Tried : puzzle[k \div N][k % N] = 0
  /\ \E k \in Tried : puzzle[k \div N][k % N] # 0
  /\ positions # <<>>
  /\ Completions(puzzle) = {solved}

\* C20: the blank cells of the puzzle carvePuzzle returns are as many as the
\* removals kept, and never more than the removal target of the requested
\* difficulty (that of medium for a difficulty that is none of the four);
\* no coordinate is tried once the target is reached.
C20_BlanksWithinTarget ==
  [][(gpc = "carve" /\ gpc' \in {"carve", "returned", "attempt"}) =>
       /\ Cardinality(Blanks(puzzle')) = removed'
       /\ removed' <= scaled(ClaimedTarget(difficulty))
       /\ positions' # positions => removed < scaled(ClaimedTarget(difficulty))]_vars

(***************************************************************************)
(* Further properties of solveBoard (specification SpecSolve).             *)
(***************************************************************************)

\* The full grids a search from p comes to: where the pre-filled cells of p
\* do not conflict, its valid completions; otherwise the fillings of its
\* blanks in which no filled cell repeats a digit of a peer.
Fillings(p) ==
  {[r \in Idx |-> [c \in Idx |-> IF p[r][c] = 0 THEN f[<<r, c>>] ELSE p[r][c]]]
     : f \in [Blanks(p) -> Digits]}

FullGridsReached(p) ==
  IF NoGivenConflict(p) THEN Completions(p)
  ELSE {g \in Fillings(p) :
          \A a \in Blanks(p) : \A b \in Peers(a) : g[a[1]][a[2]] # g[b[1]][b[2]]}

\* The order of the search: g before h when, at the first cell of the
\* row-major order where they differ, g has the smaller digit.
LexLess(g, h) ==
  \E k \in Positions :
    /\ g[k \div N][k % N] < h[k \div N][k % N]
    /\ \A j \in 0 .. (k - 1) : g[j \div N][j % N] = h[j \div N][j % N]

LexMin(S) == CHOOSE g \in S : \A h \in S : ~LexLess(h, g)

RECURSIVE Nth(_, _)

\* The n-th grid of S in the order of the search, S having n grids at least.
Nth(S, n) == IF n = 1 THEN LexMin(S) ELSE Nth(S \ {LexMin(S)}, n - 1)

\* The call at which a callback asks to stop; 0 when it never does.
StopsAt(cb) ==
  CASE cb = "first" -> 1
    [] cb = CountCallback -> 2
    [] cb = "third" -> 3
    [] OTHER -> 0

\* C21: whenever solveBoard returns false, with no callback or with a
\* callback that never returned true, the grid is cell for cell the grid
\* that was passed in.
C21_FalseLeavesGridAsPassed ==
  (spc \in {"returned", "enumerated"} /\ ~sDone) => sBoard = sInput

C21_Witness ==
  /\ spc = "enumerated"
  /\ sCallback = "never"
  /\ sCount >= 2
  /\ ~sDone
  /\ Blanks(sInput) # {}
  /\ sBoard = sInput

\* C22: with a callback, the callback is called once for each full grid the
\* search comes to, in the order of the search; at the first call that
\* returns true solveBoard returns true, with no further call and the grid
\* as that call saw it; if every call returns false the search goes through
\* every full grid and solveBoard returns false.
C22_EnumerationStopsOnRequest ==
  spc = "enumerated" =>
    LET R == FullGridsReached(sInput)
        n == Cardinality(R)
        k == StopsAt(sCallback)
    IN IF k # 0 /\ n >= k
       THEN /\ sDone
            /\ sCount = k
            /\ sBoard = Nth(R, k)
       ELSE /\ ~sDone
            /\ sCount = n
            /\ sBoard = sInput

C22_Witness ==
  /\ spc = "enumerated"
  /\ sCallback = "third"
  /\ sDone
  /\ sCount = 3
  /\ Cardinality(Completions(sInput)) > 3
  /\ sBoard = Nth(Completions(sInput), 3)

\* C23: for a grid whose pre-filled cells do not conflict, countSolutions is
\* the number of its valid completions, capped at 2.
C23_CountIsCappedCompletions ==
  (spc = "enumerated" /\ sCallback = CountCallback /\ NoGivenConflict(sInput)) =>
    LET n == Cardinality(Completions(sInput))
    IN /\ sCount = (IF n >= 2 THEN 2 ELSE n)
       /\ countSolutions(sInput) = sCount

C23_Witness ==
  /\ spc = "enumerated"
  /\ sCallback = CountCallback
  /\ NoGivenConflict(sInput)
  /\ Cardinality(Completions(sInput)) > 2
  /\ sCount = 2

\* C24 as claimed: with randomize = false and no callback, equal inputs give
\* equal results, and when solveBoard returns true the grid it leaves is the
\* first, in the order of the search, of the valid completions of the input.
C24_FirstCompletionInOrder ==
  (spc = "returned" /\ ~sRandomize) =>
    /\ solveBoard(sInput, NoCallback, 0).done = sDone
    /\ solveBoard(sInput, NoCallback, 0).board = sBoard
    /\ sDone => (Completions(sInput) # {} /\ sBoard = LexMin(Completions(sInput)))

\* C24 as amended: the same for the grids whose pre-filled cells do not
\* conflict with each other.
C24_ConsistentFirstCompletionInOrder ==
  (spc = "returned" /\ ~sRandomize /\ NoGivenConflict(sInput)) =>
    /\ solveBoard(sInput, NoCallback, 0).done = sDone
    /\ solveBoard(sInput, NoCallback, 0).board = sBoard
    /\ sDone => (Completions(sInput) # {} /\ sBoard = LexMin(Completions(sInput)))

C24_Witness ==
  /\ spc = "returned"
  /\ ~sRandomize
  /\ NoGivenConflict(sInput)
  /\ sDone
  /\ Cardinality(Completions(sInput)) >= 2
  /\ sBoard = LexMin(Completions(sInput))

\* C25: on a grid whose pre-filled cells do not conflict and that has a
\* valid completion, solveBoard without a callback returns true whatever the
\* order of the candidates, and leaves a valid complete grid that equals the
\* input at every pre-filled cell.
C25_SolvableIsSolved ==
  (spc = "returned" /\ NoGivenConflict(sInput) /\ Completions(sInput) # {}) =>
    /\ sDone
    /\ ValidComplete(sBoard)
    /\ \A a \in Cells : sInput[a[1]][a[2]] # 0 => sBoard[a[1]][a[2]] = sInput[a[1]][a[2]]

C25_Witness ==
  /\ spc = "returned"
  /\ sRandomize
  /\ NoGivenConflict(sInput)
  /\ sDone
  /\ ValidComplete(sBoard)
  /\ sBoard # LexMin(Completions(sInput))
(***************************************************************************)
(* Further properties of generatePuzzle (specification Spec).              *)
(***************************************************************************)
\* C26: generatePuzzle never reaches its failure path: the randomized solve
\* of the empty grid never fails (a grid is in hand as soon as the attempt
\* is past generateSolvedBoard), no attempt is ever abandoned (the counter of
\* attempts stays at 0, which it leaves on a failed solve and on a puzzle
\* validatePuzzle rejects), and the error is never thrown.
C26_FirstAttemptReturns ==
  /\ attempt = 0
  /\ gpc \in {"attempt", "carve", "returned"}
  /\ gpc # "attempt" => solved # Null
  /\ gpc = "returned" => ret # Null

\* A run that carved through the whole list of coordinates and returned
\* from its first attempt.
C26_Witness ==
  /\ gpc = "returned"
  /\ attempt = 0
  /\ positions = <<>>
  /\ removed > 0
  /\ ret.solution = solved

(***************************************************************************)
(* Hints and the solution (specification SpecBoard).                       *)
(***************************************************************************)
\* The player has made no wrong entry: every filled cell of the live grid
\* holds the digit of the solution.
NoWrongEntry == \A a \in Cells : grid[a[1]][a[2]] # 0 => grid[a[1]][a[2]] = bSolution[a[1]][a[2]]

\* C27: if every non-zero cell of the live grid equals the solution at that
\* cell and the solution is a valid complete grid, then a hint findHint()
\* returns has the value of the solution at the hinted cell.
C27_HintAgreesWithSolution ==
  (bpc = "play" /\ NoWrongEntry /\ ValidComplete(bSolution)) =>
    LET hint == findHint(grid)
    IN /\ hint # Null => hint.value = bSolution[hint.row][hint.col]
       /\ (lastCall.op = "findHint" /\ lastCall.value # 0) =>
            lastCall.value = bSolution[lastCall.row][lastCall.col]

\* A hint was asked for and given on a grid the player has filled one cell
\* of, correctly.
C27_Witness ==
  /\ bpc = "play"
  /\ NoWrongEntry
  /\ ValidComplete(bSolution)
  /\ grid # bPuzzle
  /\ lastCall.op = "findHint"
  /\ lastCall.value # 0
  /\ lastCall.value = bSolution[lastCall.row][lastCall.col]

(***************************************************************************)
(* Properties of the game screen (specification SpecUi).                   *)
(***************************************************************************)
\* C28: through any sequence of the handlers on a game (cell click with an
\* active number, digit key, Backspace/Delete, note toggling, undo, redo,
\* restart, clear board), every given cell of the current board keeps a
\* live value equal to its puzzle value, and the givens stay those of the
\* puzzle.
C28_GivensKeepPuzzleValue ==
  bpc = "play" =>
    /\ givens = givensOf(bPuzzle)
    /\ \A a \in Cells :
         givens[a[1]][a[2]] =>
           grid[a[1]][a[2]] # 0 /\ grid[a[1]][a[2]] = bPuzzle[a[1]][a[2]]

\* A digit key went to a given cell, on a board the player has already
\* changed.
C28_Witness ==
  /\ bpc = "play"
  /\ lastUi = "keyDigit"
  /\ selected # Null
  /\ givens[selected[1]][selected[2]]
  /\ undoStack # <<>>
  /\ grid # bPuzzle

NewGameInProgress(i) ==
  \/ calls[i].pc \in {"wait30", "waitMinimum", "wait350"}
  \/ \E k \in DOMAIN deals : deals[k].by = i

C30_OneNewGameAtATime ==
  /\ Cardinality({i \in DOMAIN calls : NewGameInProgress(i)}) <= 1
  /\ \A k \in DOMAIN deals : deals[k].by # 0 => deals[k].puzzle = bPuzzle

====
